---- MODULE Spec2Model ----
(***************************************************************************)
(* Model of backend/qa_logic.py: the retry wrapper around the completion   *)
(* transport (safe_chat_completion_create) and the four operations built   *)
(* on it (generate_summary, answer_question, generate_challenge_questions, *)
(* evaluate_user_answers).                                                 *)
(*                                                                         *)
(* Python strings are sequences of one-character strings, so that `in`,    *)
(* lower(), strip() and split() are computed and not assumed.              *)
(*                                                                         *)
(* Spec, LiveSpec and SpecLongDocuments are about one call of a qa_logic   *)
(* function at a time.  SpecApi is about backend/api.py: doc_store and the *)
(* endpoints, with requests of two clients handled at the same time.       *)
(***************************************************************************)
EXTENDS Integers, Sequences, FiniteSets, TLC

VARIABLES
  op,             \* the qa_logic function being executed, or "idle"
  pc,             \* position inside it
  document_text,  \* argument document_text
  user_question,  \* argument user_question of answer_question
  qa_pairs,       \* argument qa_pairs of evaluate_user_answers
  idx,            \* evaluate_user_answers: 1-based position of `for pair in qa_pairs`
  attempt,        \* safe_chat_completion_create: the loop variable
  events,         \* transport calls and sleeps of the current wrapper call, in order
  wres,           \* how the current wrapper call ended
  parsed,         \* generate_challenge_questions: `questions` after the parse loop
  feedback,       \* evaluate_user_answers: the list `feedback`
  ncalls,         \* transport invocations made by the current operation
  result,         \* what the operation returned or raised
  context_text,   \* the local context_text (text_for_summary in generate_summary)
  prompt,         \* the values interpolated into the prompt given to the wrapper
  doc_store,      \* api.py: the module-level dict doc_store
  requests,       \* api.py: the HTTP request of each client, with its handler's locals
  nrequests,      \* api.py: the requests received so far
  corpus          \* the documents the callers of qa_logic have at hand

\* the state of a call of a qa_logic function
qaVars == <<op, pc, document_text, user_question, qa_pairs, idx, attempt, events,
            wres, parsed, feedback, ncalls, result, context_text, prompt>>

\* the state of the API process
apiVars == <<doc_store, requests, nrequests>>

vars == <<qaVars, apiVars, corpus>>

-----------------------------------------------------------------------------
(* Python str primitives                                                   *)

UpperCase == <<"A","B","C","D","E","F","G","H","I","J","K","L","M","N","O","P","Q","R","S","T","U","V","W","X","Y","Z">>
LowerCase == <<"a","b","c","d","e","f","g","h","i","j","k","l","m","n","o","p","q","r","s","t","u","v","w","x","y","z">>
Digits == <<"0","1","2","3","4","5","6","7","8","9">>
Whitespace == {" ", "\n", "\t"}

Range(s) == {s[k] : k \in 1..Len(s)}

\* str.lower() on one character
LowerOf ==
  [c \in Range(UpperCase) |-> LowerCase[CHOOSE k \in 1..Len(UpperCase) : UpperCase[k] = c]]

LowerChar(c) == IF c \in DOMAIN LowerOf THEN LowerOf[c] ELSE c

\* str.lower()
Lower(s) == [k \in 1..Len(s) |-> LowerChar(s[k])]

\* s.startswith(p) at offset k (1-based)
MatchAt(s, p, k) ==
  /\ k + Len(p) - 1 <= Len(s)
  /\ \A j \in 1..Len(p) : s[k + j - 1] = p[j]

\* `needle in hay`
Contains(hay, needle) == \E k \in 1..(Len(hay) + 1) : MatchAt(hay, needle, k)

\* str.strip()
Strip(s) ==
  LET keep == {k \in 1..Len(s) : s[k] \notin Whitespace}
  IN  IF keep = {} THEN <<>>
      ELSE LET lo == CHOOSE k \in keep : \A j \in keep : k <= j
               hi == CHOOSE k \in keep : \A j \in keep : j <= k
           IN  SubSeq(s, lo, hi)

\* positions of the character c in s
Positions(s, c) == {k \in 1..Len(s) : s[k] = c}

MinOf(S) == CHOOSE k \in S : \A j \in S : k <= j

\* str.split('\n')
RECURSIVE SplitLines(_)
SplitLines(s) ==
  LET p == Positions(s, "\n")
  IN  IF p = {} THEN <<s>>
      ELSE <<SubSeq(s, 1, MinOf(p) - 1)>> \o SplitLines(SubSeq(s, MinOf(p) + 1, Len(s)))

\* a split at the first colon instead
AfterFirstColon(s) ==
  LET p == {k \in 1..Len(s) : s[k] = ":"}
  IN  IF p = {} THEN s ELSE SubSeq(s, (CHOOSE k \in p : \A j \in p : k <= j) + 1, Len(s))

\* line.split('.', 1)[-1]
AfterFirstDot(s) ==
  LET p == Positions(s, ".")
  IN  IF p = {} THEN s ELSE SubSeq(s, MinOf(p) + 1, Len(s))

\* list[:n] and str[:n]
Take(s, n) == IF Len(s) > n THEN SubSeq(s, 1, n) ELSE s

\* str(n) for a natural number
RECURSIVE IntToStr(_)
IntToStr(n) ==
  IF n < 10 THEN <<Digits[n + 1]>>
  ELSE IntToStr(n \div 10) \o <<Digits[(n % 10) + 1]>>

-----------------------------------------------------------------------------
(* safe_chat_completion_create                                             *)

\* range(3)
MaxAttempts == 3

\* the message of the Exception raised for a quota error (its first line)
QuotaExceededMsg == <<"O","p","e","n","A","I"," ","A","P","I"," ","q","u","o","t","a"," ","e","x","c","e","e","d","e","d","."," ","P","l","e","a","s","e",":">>

\* the message of the Exception raised after the loop
FailedAfterRetriesMsg == <<"F","a","i","l","e","d"," ","a","f","t","e","r"," ","3"," ","r","e","t","r","i","e","s"," ","d","u","e"," ","t","o"," ","A","P","I"," ","e","r","r","o","r","s",".">>

\* a quota test that knows the error code only
IsQuotaError_CodeOnly(error_msg) == Contains(error_msg, <<"i","n","s","u","f","f","i","c","i","e","n","t","_","q","u","o","t","a">>)

\* "insufficient_quota" in error_msg or "exceeded your current quota" in error_msg
IsQuotaError(error_msg) ==
  \/ Contains(error_msg, <<"i","n","s","u","f","f","i","c","i","e","n","t","_","q","u","o","t","a">>)
  \/ Contains(error_msg, <<"e","x","c","e","e","d","e","d"," ","y","o","u","r"," ","c","u","r","r","e","n","t"," ","q","u","o","t","a">>)

\* "rate_limit" in error_msg or "rate limit" in error_msg
IsRateLimitError(error_msg) ==
  \/ Contains(error_msg, <<"r","a","t","e","_","l","i","m","i","t">>)
  \/ Contains(error_msg, <<"r","a","t","e"," ","l","i","m","i","t">>)

\* a backoff that does not grow
RateLimitWait_Constant(a) == 1

\* wait_time = 2 ** attempt
RateLimitWait(a) == 2 ^ a

\* time.sleep(1) of the branch for other API errors
OtherErrorWait == 1

\* elif attempt == 2
IsLastAttempt(a) == a = 2


\* the except block of one attempt: what it does with the exception `error`
\* raised by the transport on attempt a
ExceptHandler(error, a) ==
  LET error_msg == Lower(error)
  IN  IF IsQuotaError(error_msg)
      THEN [act |-> "raise", msg |-> QuotaExceededMsg, wait |-> 0]
      ELSE IF IsRateLimitError(error_msg)
      THEN [act |-> "sleep", msg |-> <<>>, wait |-> RateLimitWait(a)]
      ELSE IF IsLastAttempt(a)
      THEN [act |-> "raise", msg |-> error, wait |-> 0]
      ELSE [act |-> "sleep", msg |-> <<>>, wait |-> OtherErrorWait]

-----------------------------------------------------------------------------
(* The completion transport, client.chat.completions.create: each call     *)
(* either returns a response with a message content or raises.             *)

MsgInsufficientQuota == <<"i","n","s","u","f","f","i","c","i","e","n","t","_","q","u","o","t","a">>
MsgExceededQuota == <<"Y","o","u"," ","e","x","c","e","e","d","e","d"," ","y","o","u","r"," ","c","u","r","r","e","n","t"," ","q","u","o","t","a">>
MsgQuotaExceeded == <<"q","u","o","t","a"," ","e","x","c","e","e","d","e","d">>
MsgRateLimit == <<"R","a","t","e"," ","l","i","m","i","t"," ","r","e","a","c","h","e","d">>
MsgRateLimitCode == <<"r","a","t","e","_","l","i","m","i","t","_","e","x","c","e","e","d","e","d">>
MsgTimeout == <<"R","e","q","u","e","s","t"," ","t","i","m","e","d"," ","o","u","t",".">>
MsgInvalidKey == <<"I","n","v","a","l","i","d"," ","A","P","I"," ","k","e","y">>
MsgConnection == <<"C","o","n","n","e","c","t","i","o","n"," ","e","r","r","o","r",".">>

TransportErrors ==
  {MsgInsufficientQuota, MsgExceededQuota, MsgQuotaExceeded, MsgRateLimit,
   MsgRateLimitCode, MsgTimeout, MsgInvalidKey, MsgConnection}

\* the six-line multiple-choice block
SixLineResponse ==
  <<"Q","u","e","s","t","i","o","n"," ","1",":"," ","W","h","a","t"," ","i","s"," ","X","?","\n","A",")"," ","A","l","p","h","a","\n","B",")"," ","B","e","t","a","\n","C",")"," ","G","a","m","m","a","\n","D",")"," ","D","e","l","t","a","\n","C","o","r","r","e","c","t"," ","A","n","s","w","e","r",":"," ","B">>

\* response contents offered to generate_challenge_questions
ChallengeContents ==
  { <<>>,
    SixLineResponse,
    <<"1",".","\n","2","."," ","b","?">>,
    <<" ","1","."," ","a","?","\n","\n"," ","Q","2","."," ","b","?"," ","\n","n","o","t","e">>,
    <<"1","."," ","a","?","\n","2","."," ","b","?","\n","3","."," ","c","?">>,
    <<"1","."," ","a","?","\n","2","."," ","b","?","\n","3","."," ","c","?","\n","4","."," ","d","?","\n","5","."," ","e","?">> }

\* response contents offered to generate_summary and answer_question
TextContents == { <<" ","F","i","n","e",".","\n">>, <<"o","k">> }

\* response contents offered to evaluate_user_answers, for each pair
EvaluationContents == { <<" ","G","o","o","d"," ","a","n","s","w","e","r",".","\n">> }

Contents(o) ==
  IF o = "generate_challenge_questions" THEN ChallengeContents
  ELSE IF o = "evaluate_user_answers" THEN EvaluationContents
  ELSE TextContents

\* errors offered to evaluate_user_answers, for each pair: one of each branch
\* of the wrapper's except block
EvaluationErrors == {MsgInsufficientQuota, MsgQuotaExceeded, MsgRateLimit, MsgInvalidKey}

Errors(o) == IF o = "evaluate_user_answers" THEN EvaluationErrors ELSE TransportErrors

TransportOutcomes(o) ==
  [ok : {TRUE}, text : Contents(o)] \cup [ok : {FALSE}, text : Errors(o)]

CallEvent(out) == [type |-> "call", ok |-> out.ok, text |-> out.text, secs |-> 0]
SleepEvent(n) == [type |-> "sleep", ok |-> FALSE, text |-> <<>>, secs |-> n]

NoResult == [tag |-> "none", value |-> <<>>]
Return(v) == [tag |-> "return", value |-> v]
Raise(m) == [tag |-> "raise", value |-> m]

\* a wrapper that gives up by returning nothing
AfterLoop_ReturnsNone == Return(<<>>)

\* raise Exception("Failed after 3 retries due to API errors."), after the loop
AfterLoop == Raise(FailedAfterRetriesMsg)

-----------------------------------------------------------------------------
(* The except blocks of the four operations test the message of the caught *)
(* exception without lowering it.                                          *)

\* a test for the error code only
SaysQuota_CodeOnly(error_msg) == Contains(error_msg, <<"i","n","s","u","f","f","i","c","i","e","n","t","_","q","u","o","t","a">>)

\* "quota exceeded" in error_msg or "insufficient_quota" in error_msg
SaysQuota(error_msg) ==
  \/ Contains(error_msg, <<"q","u","o","t","a"," ","e","x","c","e","e","d","e","d">>)
  \/ Contains(error_msg, <<"i","n","s","u","f","f","i","c","i","e","n","t","_","q","u","o","t","a">>)

(* The document text given to the model *)

\* document_text[:4000] if len(document_text) > 4000 else document_text
ContextLimit == 4000

\* a context that is never cut
Truncate_Never(text, limit) == text

Truncate(text, limit) == IF Len(text) > limit THEN Take(text, limit) ELSE text

\* no prompt has been built
NoPrompt == [document |-> <<>>, question |-> <<>>, answer |-> <<>>, built |-> FALSE]

\* the f-string `prompt`: the values it interpolates
Prompt(context, question, answer) ==
  [document |-> context, question |-> question, answer |-> answer, built |-> TRUE]

(* generate_summary *)

\* document_text[:300]
SnippetLen == 300

SummaryFallback(doc) ==
  <<"A","I"," ","S","u","m","m","a","r","y"," ","u","n","a","v","a","i","l","a","b","l","e"," ","(","O","p","e","n","A","I"," ","q","u","o","t","a"," ","e","x","c","e","e","d","e","d",")"," ","F","A","L","L","B","A","C","K"," ","S","U","M","M","A","R","Y",":"," ","D","o","c","u","m","e","n","t"," ","c","o","n","t","a","i","n","s"," ">>
    \o IntToStr(Len(doc)) \o <<" ","c","h","a","r","a","c","t","e","r","s","."," ","H","e","r","e","'","s"," ","t","h","e"," ","b","e","g","i","n","n","i","n","g",":"," ">>
    \o Take(doc, SnippetLen) \o <<".",".",".">>

SummaryError(error_msg) == <<"E","r","r","o","r"," ","g","e","n","e","r","a","t","i","n","g"," ","s","u","m","m","a","r","y",":"," ">> \o error_msg

\* the value generate_summary returns once the wrapper call ended as w
SummaryResult(doc, w) ==
  IF w.tag = "return" THEN Return(Strip(w.value))
  ELSE IF SaysQuota(w.value) THEN Return(SummaryFallback(doc))
  ELSE Return(SummaryError(w.value))

(* answer_question *)

AnswerFallback(question) ==
  <<"A","I"," ","Q","&","A"," ","u","n","a","v","a","i","l","a","b","l","e"," ","(","O","p","e","n","A","I"," ","q","u","o","t","a"," ","e","x","c","e","e","d","e","d",")"," ","F","A","L","L","B","A","C","K"," ","R","E","S","P","O","N","S","E",":"," ","I"," ","c","a","n","n","o","t"," ","p","r","o","v","i","d","e"," ","a","n"," ","A","I","-","p","o","w","e","r","e","d"," ","a","n","s","w","e","r"," ","t","o",":"," ","'">>
    \o question \o <<"'">>

AnswerError(error_msg) == <<"E","r","r","o","r"," ","p","r","o","c","e","s","s","i","n","g"," ","y","o","u","r"," ","q","u","e","s","t","i","o","n",":"," ">> \o error_msg

\* the value answer_question returns once the wrapper call ended as w
AnswerResult(question, w) ==
  IF w.tag = "return" THEN Return(Strip(w.value))
  ELSE IF SaysQuota(w.value) THEN Return(AnswerFallback(question))
  ELSE Return(AnswerError(w.value))

(* generate_challenge_questions *)

\* line[0].isdigit() or line.startswith('Q'), for a non-empty line
IsQuestionLine(line) ==
  /\ Len(line) > 0
  /\ (line[1] \in Range(Digits) \/ line[1] = "Q")

\* clean_question = line.split('.', 1)[-1].strip()
CleanQuestion(line) == Strip(AfterFirstDot(line))

\* the parse loop over questions_raw.split('\n')
RECURSIVE ParseLines(_)
ParseLines(lines) ==
  IF lines = <<>> THEN <<>>
  ELSE LET line == Strip(Head(lines))
           rest == ParseLines(Tail(lines))
       IN  IF IsQuestionLine(line) /\ CleanQuestion(line) # <<>>
           THEN <<CleanQuestion(line)>> \o rest
           ELSE rest

\* questions_raw = content.strip(), then the parse loop
ParseQuestions(content) == ParseLines(SplitLines(Strip(content)))

\* len(questions) == 3 is what the function guarantees
NumQuestions == 3

\* the padding taken from the end of the list
PaddingQuestions_Reversed ==
  << <<"H","o","w"," ","w","o","u","l","d"," ","y","o","u"," ","s","u","m","m","a","r","i","z","e"," ","t","h","e"," ","k","e","y"," ","f","i","n","d","i","n","g","s"," ","o","r"," ","a","r","g","u","m","e","n","t","s","?">>,
     <<"W","h","a","t"," ","c","o","n","c","l","u","s","i","o","n","s"," ","c","a","n"," ","y","o","u"," ","d","r","a","w"," ","f","r","o","m"," ","t","h","e"," ","i","n","f","o","r","m","a","t","i","o","n"," ","p","r","e","s","e","n","t","e","d","?">>,
     <<"W","h","a","t"," ","a","r","e"," ","t","h","e"," ","m","a","i","n"," ","p","o","i","n","t","s"," ","d","i","s","c","u","s","s","e","d"," ","i","n"," ","t","h","i","s"," ","d","o","c","u","m","e","n","t","?">> >>

\* the questions appended when fewer than 3 were parsed
PaddingQuestions ==
  << <<"W","h","a","t"," ","a","r","e"," ","t","h","e"," ","m","a","i","n"," ","p","o","i","n","t","s"," ","d","i","s","c","u","s","s","e","d"," ","i","n"," ","t","h","i","s"," ","d","o","c","u","m","e","n","t","?">>,
     <<"W","h","a","t"," ","c","o","n","c","l","u","s","i","o","n","s"," ","c","a","n"," ","y","o","u"," ","d","r","a","w"," ","f","r","o","m"," ","t","h","e"," ","i","n","f","o","r","m","a","t","i","o","n"," ","p","r","e","s","e","n","t","e","d","?">>,
     <<"H","o","w"," ","w","o","u","l","d"," ","y","o","u"," ","s","u","m","m","a","r","i","z","e"," ","t","h","e"," ","k","e","y"," ","f","i","n","d","i","n","g","s"," ","o","r"," ","a","r","g","u","m","e","n","t","s","?">> >>

\* a truncation that never pads
EnsureThree_NoPadding(questions) == Take(questions, 3)

\* questions = questions[:3]; if len(questions) < 3: extend, questions[:3]
EnsureThree(questions) ==
  LET q == Take(questions, NumQuestions)
  IN  IF Len(q) < NumQuestions THEN Take(q \o PaddingQuestions, NumQuestions) ELSE q

\* the list returned when the quota is exceeded
ChallengeQuotaFallback ==
  << <<"W","h","a","t"," ","a","r","e"," ","t","h","e"," ","m","a","i","n"," ","t","o","p","i","c","s"," ","c","o","v","e","r","e","d"," ","i","n"," ","t","h","i","s"," ","d","o","c","u","m","e","n","t","?"," ","(","A","I"," ","g","e","n","e","r","a","t","i","o","n"," ","u","n","a","v","a","i","l","a","b","l","e"," ","-"," ","q","u","o","t","a"," ","e","x","c","e","e","d","e","d",")">>,
     <<"W","h","a","t"," ","a","r","e"," ","t","h","e"," ","k","e","y"," ","c","o","n","c","l","u","s","i","o","n","s"," ","o","r"," ","f","i","n","d","i","n","g","s"," ","m","e","n","t","i","o","n","e","d","?"," ","(","P","l","e","a","s","e"," ","c","h","e","c","k"," ","O","p","e","n","A","I"," ","b","i","l","l","i","n","g",")">>,
     <<"W","h","a","t"," ","q","u","e","s","t","i","o","n","s"," ","d","o","e","s"," ","t","h","i","s"," ","d","o","c","u","m","e","n","t"," ","r","a","i","s","e"," ","f","o","r"," ","f","u","r","t","h","e","r"," ","r","e","s","e","a","r","c","h","?"," ","(","F","a","l","l","b","a","c","k"," ","q","u","e","s","t","i","o","n",")">> >>

\* the list returned on any other exception
ChallengeErrorFallback ==
  << <<"W","h","a","t"," ","a","r","e"," ","t","h","e"," ","m","a","i","n"," ","t","o","p","i","c","s"," ","c","o","v","e","r","e","d"," ","i","n"," ","t","h","i","s"," ","d","o","c","u","m","e","n","t","?">>,
     <<"W","h","a","t"," ","a","r","e"," ","t","h","e"," ","k","e","y"," ","c","o","n","c","l","u","s","i","o","n","s"," ","o","r"," ","f","i","n","d","i","n","g","s","?">>,
     <<"W","h","a","t"," ","q","u","e","s","t","i","o","n","s"," ","d","o","e","s"," ","t","h","i","s"," ","d","o","c","u","m","e","n","t"," ","r","a","i","s","e"," ","f","o","r"," ","f","u","r","t","h","e","r"," ","r","e","s","e","a","r","c","h","?">> >>

\* the value generate_challenge_questions returns once the wrapper call ended as w
ChallengeResult(w) ==
  IF w.tag = "return" THEN Return(EnsureThree(ParseQuestions(w.value)))
  ELSE IF SaysQuota(w.value) THEN Return(ChallengeQuotaFallback)
  ELSE Return(ChallengeErrorFallback)

(* evaluate_user_answers *)

\* str(e) of the TypeError raised by subscripting a pydantic model object
NotSubscriptableMsg == <<"'","A","n","s","w","e","r","I","t","e","m","'"," ","o","b","j","e","c","t"," ","i","s"," ","n","o","t"," ","s","u","b","s","c","r","i","p","t","a","b","l","e">>

\* pair[key]: a dict gives the value, an AnswerItem (api.py, data.responses)
\* raises TypeError
Subscript(pair, key) ==
  IF pair.kind = "dict" THEN Return(pair[key]) ELSE Raise(NotSubscriptableMsg)

\* a test that forgets strip()
IsBlank_EmptyOnly(user_answer) == user_answer = <<>>

\* not user_answer.strip()
IsBlank(user_answer) == Strip(user_answer) = <<>>

NoAnswerRecord(question) ==
  [question |-> question,
   user_answer |-> <<"N","o"," ","a","n","s","w","e","r"," ","p","r","o","v","i","d","e","d">>,
   evaluation |-> <<"P","l","e","a","s","e"," ","p","r","o","v","i","d","e"," ","a","n"," ","a","n","s","w","e","r"," ","t","o"," ","r","e","c","e","i","v","e"," ","f","e","e","d","b","a","c","k",".">>]

EvaluationFallback(user_answer) ==
  <<"A","I"," ","e","v","a","l","u","a","t","i","o","n"," ","u","n","a","v","a","i","l","a","b","l","e"," ","(","O","p","e","n","A","I"," ","q","u","o","t","a"," ","e","x","c","e","e","d","e","d",")"," ","Y","o","u","r"," ","a","n","s","w","e","r",":"," ","'">>
    \o user_answer \o <<"'"," ","M","a","n","u","a","l"," ","r","e","v","i","e","w"," ","s","u","g","g","e","s","t","e","d">>

EvaluationError(error_msg) == <<"E","r","r","o","r"," ","e","v","a","l","u","a","t","i","n","g"," ","t","h","i","s"," ","a","n","s","w","e","r",":"," ">> \o error_msg

\* an inner try without the quota branch
Evaluation_NoFallback(user_answer, w) ==
  IF w.tag = "return" THEN Strip(w.value) ELSE EvaluationError(w.value)

\* `evaluation` once the wrapper call of one pair ended as w (the inner try)
Evaluation(user_answer, w) ==
  IF w.tag = "return" THEN Strip(w.value)
  ELSE IF SaysQuota(w.value) THEN EvaluationFallback(user_answer)
  ELSE EvaluationError(w.value)

FeedbackRecord(question, user_answer, evaluation) ==
  [question |-> question, user_answer |-> user_answer, evaluation |-> evaluation]

\* the outer except block: the list returned for an exception escaping the loop
OuterExcept(error_msg) ==
  IF SaysQuota(error_msg)
  THEN << [question |-> <<"O","p","e","n","A","I"," ","Q","u","o","t","a"," ","E","x","c","e","e","d","e","d">>,
           user_answer |-> <<"S","e","r","v","i","c","e"," ","U","n","a","v","a","i","l","a","b","l","e">>,
           evaluation |-> <<"A","I"," ","e","v","a","l","u","a","t","i","o","n"," ","i","s"," ","c","u","r","r","e","n","t","l","y"," ","u","n","a","v","a","i","l","a","b","l","e"," ","d","u","e"," ","t","o"," ","O","p","e","n","A","I"," ","q","u","o","t","a"," ","l","i","m","i","t","s",".">>] >>
  ELSE << [question |-> <<"E","r","r","o","r">>,
           user_answer |-> <<"E","r","r","o","r">>,
           evaluation |-> <<"E","r","r","o","r"," ","d","u","r","i","n","g"," ","e","v","a","l","u","a","t","i","o","n",":"," ">> \o error_msg] >>

-----------------------------------------------------------------------------
(* Inputs                                                                  *)

\* a document one character longer than the context limit
LongDocument == [k \in 1..(ContextLimit + 1) |-> IF k % 2 = 1 THEN "a" ELSE "b"]

Documents == { <<"C","a","t","s"," ","p","u","r","r",".">>, <<"D","o","g","s"," ","b","a","r","k"," ","l","o","u","d","l","y"," ","a","t"," ","n","i","g","h","t",".">> }

\* documents on both sides of the context limit
LongDocuments == { <<"C","a","t","s"," ","p","u","r","r",".">>, LongDocument }

Questions == { <<"W","h","y","?">>, <<"W","h","o"," ","b","a","r","k","s","?">> }

\* the longest qa_pairs list
MaxPairs == 2

\* (question, answer) pairs a caller may submit
PairPool ==
  { [question |-> <<"Q","1">>, answer |-> <<"y","e","s">>],
    [question |-> <<"Q","2">>, answer |-> <<>>],
    [question |-> <<"Q","3">>, answer |-> <<" ","\t">>] }

\* a pair as a dict (the declared List[dict]) or as the AnswerItem object
\* that /evaluate/ passes on from data.responses
AsPair(kind, p) == [kind |-> kind, question |-> p.question, answer |-> p.answer]

PairLists(kind) ==
  UNION { [1..n -> {AsPair(kind, p) : p \in PairPool}] : n \in 0..MaxPairs }

-----------------------------------------------------------------------------
(* api.py: doc_store and the endpoints.  The handlers are coroutines of one  *)
(* event loop: a handler runs without interruption from one await to the     *)
(* next.  The qa_logic function a handler calls runs in a thread of the      *)
(* default executor, on the arguments it was given.                          *)

\* the clients: each has at most one request in flight, so that up to two
\* requests are handled at the same time
Clients == {"c1", "c2"}

\* the most requests the API receives in one run
MaxRequests == 3

\* s.endswith(suffix)
EndsWith(s, suffix) ==
  Len(s) >= Len(suffix) /\ SubSeq(s, Len(s) - Len(suffix) + 1, Len(s)) = suffix

\* 50 * 1024 * 1024
MaxFileSize == 50 * 1024 * 1024

\* uploaded files: the name, the size, and the text the extraction gives
Files ==
  { [filename |-> <<"c","a","t","s",".","t","x","t">>, size |-> 10, text |-> <<"C","a","t","s"," ","p","u","r","r",".">>],
    [filename |-> <<"D","o","g","s",".","P","D","F">>, size |-> 2048, text |-> <<"D","o","g","s"," ","b","a","r","k"," ","l","o","u","d","l","y"," ","a","t"," ","n","i","g","h","t",".">>],
    [filename |-> <<"b","l","a","n","k",".","t","x","t">>, size |-> 2, text |-> <<" ","\n">>],
    [filename |-> <<"p","h","o","t","o",".","p","n","g">>, size |-> 4096, text |-> <<>>],
    [filename |-> <<"h","u","g","e",".","p","d","f">>, size |-> MaxFileSize + 1, text |-> <<"C","a","t","s"," ","p","u","r","r",".">>] }

\* data.responses of /evaluate/: the pairs are AnswerItem objects
Responses ==
  { <<>>,
    << AsPair("AnswerItem", [question |-> <<"Q","2">>, answer |-> <<>>]),
       AsPair("AnswerItem", [question |-> <<"Q","1">>, answer |-> <<"y","e","s">>]) >> }

NoResponse == [status |-> 0, body |-> <<>>]
Response(status, body) == [status |-> status, body |-> body]

\* raise HTTPException(status_code=..., detail=...) reaching the client
HTTPException(status, detail) == [status |-> status, body |-> detail]

NoRequest ==
  [endpoint |-> "none", pc |-> "idle", text |-> <<>>, question |-> <<>>, pairs |-> <<>>,
   prompts |-> <<>>, job |-> NoResult, response |-> NoResponse]

NoDocumentDetail == <<"N","o"," ","d","o","c","u","m","e","n","t"," ","u","p","l","o","a","d","e","d"," ","y","e","t",".">>

\* str(e) of an HTTPException: empty, or "<status>: <detail>", with the
\* installed version of the framework
StrHTTPException(status, detail) ==
  { <<>>, IntToStr(status) \o <<":"," ">> \o detail }

\* the `except Exception` block of /ask/, /challenge/ and /evaluate/
ExceptException(error_msg, detail) ==
  IF Contains(Lower(error_msg), <<"q","u","o","t","a">>) \/ Contains(Lower(error_msg), <<"e","x","c","e","e","d","e","d">>)
  THEN HTTPException(429, <<"O","p","e","n","A","I"," ","q","u","o","t","a"," ","e","x","c","e","e","d","e","d","."," ","P","l","e","a","s","e"," ","c","h","e","c","k"," ","y","o","u","r"," ","b","i","l","l","i","n","g",".">>)
  ELSE IF Contains(Lower(error_msg), <<"i","n","v","a","l","i","d">>) /\ Contains(Lower(error_msg), <<"k","e","y">>)
  THEN HTTPException(401, <<"I","n","v","a","l","i","d"," ","O","p","e","n","A","I"," ","A","P","I"," ","k","e","y",".">>)
  ELSE HTTPException(500, detail)

\* the detail of each endpoint's last HTTPException
ErrorDetail(endpoint) ==
  CASE endpoint = "ask" -> <<"E","r","r","o","r"," ","a","n","s","w","e","r","i","n","g"," ","t","h","e"," ","q","u","e","s","t","i","o","n",".">>
    [] endpoint = "challenge" -> <<"E","r","r","o","r"," ","g","e","n","e","r","a","t","i","n","g"," ","c","h","a","l","l","e","n","g","e"," ","q","u","e","s","t","i","o","n","s",".">>
    [] endpoint = "evaluate" -> <<"E","r","r","o","r"," ","e","v","a","l","u","a","t","i","n","g"," ","a","n","s","w","e","r","s",".">>

\* the detail of each endpoint's HTTPException for asyncio.TimeoutError
TimeoutDetail(endpoint) ==
  CASE endpoint = "ask" -> <<"Q","u","e","s","t","i","o","n"," ","p","r","o","c","e","s","s","i","n","g"," ","t","i","m","e","d"," ","o","u","t","."," ","P","l","e","a","s","e"," ","t","r","y"," ","a"," ","s","i","m","p","l","e","r"," ","q","u","e","s","t","i","o","n",".">>
    [] endpoint = "challenge" -> <<"C","h","a","l","l","e","n","g","e"," ","q","u","e","s","t","i","o","n"," ","g","e","n","e","r","a","t","i","o","n"," ","t","i","m","e","d"," ","o","u","t",".">>
    [] endpoint = "evaluate" -> <<"A","n","s","w","e","r"," ","e","v","a","l","u","a","t","i","o","n"," ","t","i","m","e","d"," ","o","u","t",".">>

\* the summary stored when generate_summary does not end in 60 s
TimedOutSummary ==
  <<"S","u","m","m","a","r","y"," ","g","e","n","e","r","a","t","i","o","n"," ","t","i","m","e","d"," ","o","u","t","."," ","P","l","e","a","s","e"," ","t","r","y"," ","a","g","a","i","n"," ","w","i","t","h"," ","a"," ","s","m","a","l","l","e","r"," ","d","o","c","u","m","e","n","t",".">>

\* the except block of /upload/ around the summary
SummaryExcept(error_msg) ==
  IF Contains(Lower(error_msg), <<"q","u","o","t","a">>) \/ Contains(Lower(error_msg), <<"e","x","c","e","e","d","e","d">>)
  THEN <<"O","p","e","n","A","I"," ","q","u","o","t","a"," ","e","x","c","e","e","d","e","d","."," ","P","l","e","a","s","e"," ","c","h","e","c","k"," ","y","o","u","r"," ","b","i","l","l","i","n","g"," ","a","t"," ","h","t","t","p","s",":","/","/","p","l","a","t","f","o","r","m",".","o","p","e","n","a","i",".","c","o","m","/","u","s","a","g","e">>
  ELSE IF Contains(Lower(error_msg), <<"i","n","v","a","l","i","d">>) /\ Contains(Lower(error_msg), <<"k","e","y">>)
  THEN <<"I","n","v","a","l","i","d"," ","A","P","I"," ","k","e","y","."," ","P","l","e","a","s","e"," ","c","h","e","c","k"," ","y","o","u","r"," ",".","e","n","v"," ","c","o","n","f","i","g","u","r","a","t","i","o","n",".">>
  ELSE <<"E","r","r","o","r"," ","g","e","n","e","r","a","t","i","n","g"," ","s","u","m","m","a","r","y",":"," ">> \o error_msg

\* text[:500] + ("..." if len(text) > 500 else "")
Preview(text) == Take(text, 500) \o (IF Len(text) > 500 THEN <<".",".",".">> ELSE <<>>)

\* the question of /ask/ requests
ApiQuestions == { <<"W","h","y","?">> }

\* transport outcomes offered to the calls made for a request
ApiOutcomes(o) ==
  [ok : {TRUE},
   text : {IF o = "generate_challenge_questions" THEN <<"1","."," ","a","?","\n","2","."," ","b","?","\n","3","."," ","c","?">> ELSE <<"o","k">>}]
    \cup [ok : {FALSE}, text : {MsgInsufficientQuota, MsgTimeout}]

\* safe_chat_completion_create run from attempt a on the transport outcomes
\* outs, one per attempt: how it ends
RECURSIVE WrapperRun(_, _)
WrapperRun(outs, a) ==
  IF a >= MaxAttempts THEN AfterLoop
  ELSE LET out == outs[a + 1]
           h == ExceptHandler(out.text, a)
       IN  IF out.ok THEN Return(out.text)
           ELSE IF h.act = "raise" THEN Raise(h.msg)
           ELSE WrapperRun(outs, a + 1)

\* the ways one wrapper call of each operation can end
WrapperResults ==
  [o \in {"generate_summary", "answer_question", "generate_challenge_questions"} |->
     {WrapperRun(outs, 0) : outs \in [1..MaxAttempts -> ApiOutcomes(o)]}]

\* a job that reads the store when it runs
JobDocument_ReadsStore(req, store) == store.content

\* the document_text argument of the job: the value the handler passed to
\* run_in_executor
JobDocument(req, store) == req.text

\* evaluate_user_answers on data.responses
EvaluateJob(pairs) ==
  CASE pairs = <<>> -> <<>>
    [] pairs # <<>> /\ Subscript(pairs[1], "question").tag = "raise"
         -> OuterExcept(Subscript(pairs[1], "question").value)

\* a write of the questions into the wrong key
StoreQuestions_AsContent(store, questions) == [store EXCEPT !.content = questions[1]]

\* doc_store["challenge_questions"] = questions
StoreQuestions(store, questions) == [store EXCEPT !.challenge_questions = questions]

-----------------------------------------------------------------------------
(* State machine                                                           *)

InitCall ==
  /\ op = "idle"
  /\ pc = "idle"
  /\ document_text = <<>>
  /\ user_question = <<>>
  /\ qa_pairs = <<>>
  /\ idx = 1
  /\ attempt = 0
  /\ events = <<>>
  /\ wres = NoResult
  /\ parsed = <<>>
  /\ feedback = <<>>
  /\ ncalls = 0
  /\ result = NoResult
  /\ context_text = <<>>
  /\ prompt = NoPrompt
  /\ doc_store = [content |-> <<>>, summary |-> <<>>, challenge_questions |-> <<>>]
  /\ requests = [c \in Clients |-> NoRequest]
  /\ nrequests = 0

Init == InitCall /\ corpus = Documents

InitLongDocuments == InitCall /\ corpus = LongDocuments

\* a function of qa_logic is entered: its locals are fresh
Enter(o, doc, question, pairs, at) ==
  /\ op' = o
  /\ pc' = at
  /\ document_text' = doc
  /\ user_question' = question
  /\ qa_pairs' = pairs
  /\ idx' = 1
  /\ attempt' = 0
  /\ events' = <<>>
  /\ wres' = NoResult
  /\ parsed' = <<>>
  /\ feedback' = <<>>
  /\ ncalls' = 0
  /\ result' = NoResult
  /\ context_text' = Truncate(doc, ContextLimit)
  /\ prompt' = IF at = "call" THEN Prompt(Truncate(doc, ContextLimit), question, <<>>)
                ELSE NoPrompt
  /\ UNCHANGED <<apiVars, corpus>>

\* one iteration of `for attempt in range(3)`: the transport call, and on an
\* exception its except block with the sleep; after the last iteration the
\* raise that follows the loop
safe_chat_completion_create ==
  /\ pc = "call"
  /\ \E out \in TransportOutcomes(op) :
       LET called == Append(events, CallEvent(out))
           h == ExceptHandler(out.text, attempt)
       IN  /\ ncalls' = ncalls + 1
           /\ IF out.ok
              THEN /\ events' = called
                   /\ wres' = Return(out.text)
                   /\ attempt' = attempt
                   /\ pc' = "handle"
              ELSE IF h.act = "raise"
              THEN /\ events' = called
                   /\ wres' = Raise(h.msg)
                   /\ attempt' = attempt
                   /\ pc' = "handle"
              ELSE /\ events' = Append(called, SleepEvent(h.wait))
                   /\ attempt' = attempt + 1
                   /\ IF attempt + 1 < MaxAttempts
                      THEN wres' = wres /\ pc' = "call"
                      ELSE wres' = AfterLoop /\ pc' = "handle"
  /\ UNCHANGED <<op, document_text, user_question, qa_pairs, idx, parsed, feedback, result,
                 context_text, prompt>>
  /\ UNCHANGED <<apiVars, corpus>>

generate_summary(doc) ==
  /\ pc = "idle"
  /\ Enter("generate_summary", doc, <<>>, <<>>, "call")

generate_summary_return ==
  /\ op = "generate_summary" /\ pc = "handle"
  /\ result' = SummaryResult(document_text, wres)
  /\ pc' = "done"
  /\ UNCHANGED <<op, document_text, user_question, qa_pairs, idx, attempt, events,
                 wres, parsed, feedback, ncalls, context_text, prompt>>
  /\ UNCHANGED <<apiVars, corpus>>

answer_question(doc, question) ==
  /\ pc = "idle"
  /\ Enter("answer_question", doc, question, <<>>, "call")

answer_question_return ==
  /\ op = "answer_question" /\ pc = "handle"
  /\ result' = AnswerResult(user_question, wres)
  /\ pc' = "done"
  /\ UNCHANGED <<op, document_text, user_question, qa_pairs, idx, attempt, events,
                 wres, parsed, feedback, ncalls, context_text, prompt>>
  /\ UNCHANGED <<apiVars, corpus>>

generate_challenge_questions(doc) ==
  /\ pc = "idle"
  /\ Enter("generate_challenge_questions", doc, <<>>, <<>>, "call")

generate_challenge_questions_return ==
  /\ op = "generate_challenge_questions" /\ pc = "handle"
  /\ parsed' = IF wres.tag = "return" THEN ParseQuestions(wres.value) ELSE <<>>
  /\ result' = ChallengeResult(wres)
  /\ pc' = "done"
  /\ UNCHANGED <<op, document_text, user_question, qa_pairs, idx, attempt, events,
                 wres, feedback, ncalls, context_text, prompt>>
  /\ UNCHANGED <<apiVars, corpus>>

\* called with a list of dicts, as its signature declares
evaluate_user_answers(doc, pairs) ==
  /\ pc = "idle"
  /\ \A k \in 1..Len(pairs) : pairs[k].kind = "dict"
  /\ Enter("evaluate_user_answers", doc, <<>>, pairs, "loop")

\* called by the /evaluate/ endpoint with data.responses, a list of AnswerItem
evaluate_answers(doc, pairs) ==
  /\ pc = "idle"
  /\ doc # <<>>
  /\ \A k \in 1..Len(pairs) : pairs[k].kind = "AnswerItem"
  /\ Enter("evaluate_user_answers", doc, <<>>, pairs, "loop")

\* the head of one iteration of `for pair in qa_pairs`, up to the wrapper
\* call; or, the list exhausted, `return feedback`
evaluate_user_answers_loop ==
  /\ op = "evaluate_user_answers" /\ pc = "loop"
  /\ IF idx > Len(qa_pairs)
     THEN /\ result' = Return(feedback)
          /\ pc' = "done"
          /\ UNCHANGED <<idx, attempt, events, wres, feedback, prompt>>
     ELSE LET question == Subscript(qa_pairs[idx], "question")
              user_answer == Subscript(qa_pairs[idx], "answer")
          IN  IF question.tag = "raise"
              THEN /\ result' = Return(OuterExcept(question.value))
                   /\ pc' = "done"
                   /\ UNCHANGED <<idx, attempt, events, wres, feedback, prompt>>
              ELSE IF IsBlank(user_answer.value)
              THEN /\ feedback' = Append(feedback, NoAnswerRecord(question.value))
                   /\ idx' = idx + 1
                   /\ events' = <<>>
                   /\ wres' = NoResult
                   /\ UNCHANGED <<pc, attempt, result, prompt>>
              ELSE /\ pc' = "call"
                   /\ attempt' = 0
                   /\ events' = <<>>
                   /\ wres' = NoResult
                   /\ prompt' = Prompt(context_text, question.value, user_answer.value)
                   /\ UNCHANGED <<idx, feedback, result>>
  /\ UNCHANGED <<op, document_text, user_question, qa_pairs, parsed, ncalls, context_text>>
  /\ UNCHANGED <<apiVars, corpus>>

\* the rest of the iteration: the inner try's outcome becomes `evaluation`,
\* and the record is appended
evaluate_user_answers_append ==
  /\ op = "evaluate_user_answers" /\ pc = "handle"
  /\ feedback' = Append(feedback,
                   FeedbackRecord(qa_pairs[idx].question, qa_pairs[idx].answer,
                                  Evaluation(qa_pairs[idx].answer, wres)))
  /\ idx' = idx + 1
  /\ pc' = "loop"
  /\ UNCHANGED <<op, document_text, user_question, qa_pairs, attempt, events, wres,
                 parsed, ncalls, result, context_text, prompt>>
  /\ UNCHANGED <<apiVars, corpus>>

\* the caller has taken the returned value; nothing of the call is kept
\* (qa_logic has no module state besides the client)
caller_continues ==
  /\ pc = "done"
  /\ op' = "idle"
  /\ pc' = "idle"
  /\ document_text' = <<>>
  /\ user_question' = <<>>
  /\ qa_pairs' = <<>>
  /\ idx' = 1
  /\ attempt' = 0
  /\ events' = <<>>
  /\ wres' = NoResult
  /\ parsed' = <<>>
  /\ feedback' = <<>>
  /\ ncalls' = 0
  /\ result' = NoResult
  /\ context_text' = <<>>
  /\ prompt' = NoPrompt
  /\ UNCHANGED <<apiVars, corpus>>

Next ==
  \/ \E doc \in corpus : generate_summary(doc)
  \/ \E doc \in corpus, question \in Questions : answer_question(doc, question)
  \/ \E doc \in corpus : generate_challenge_questions(doc)
  \/ \E doc \in corpus, pairs \in PairLists("dict") : evaluate_user_answers(doc, pairs)
  \/ \E doc \in corpus, pairs \in PairLists("AnswerItem") : evaluate_answers(doc, pairs)
  \/ safe_chat_completion_create
  \/ generate_summary_return
  \/ answer_question_return
  \/ generate_challenge_questions_return
  \/ evaluate_user_answers_loop
  \/ evaluate_user_answers_append
  \/ caller_continues

Spec == Init /\ [][Next]_vars

\* The loop of the wrapper goes on by itself: the transport call returns or
\* raises (it is given timeout=30) and time.sleep returns.
LiveSpec == Spec /\ WF_vars(safe_chat_completion_create)

\* The same calls, made with documents on both sides of the context limit.
SpecLongDocuments == InitLongDocuments /\ [][Next]_vars

-----------------------------------------------------------------------------
(* The endpoints of api.py                                                   *)

\* client c, who has no request in flight, sends one
Arrives(c) ==
  /\ requests[c].pc \in {"idle", "done"}
  /\ nrequests < MaxRequests
  /\ nrequests' = nrequests + 1

\* the request of client c ends with the response
Respond(c, response) ==
  requests' = [requests EXCEPT ![c].pc = "done", ![c].response = response]

\* POST /upload/ up to the await of the summary: the checks of the file, the
\* extraction of its text, doc_store["content"] = text, and generate_summary
\* handed to the executor
upload_file(c, file) ==
  /\ Arrives(c)
  /\ LET filename == Lower(file.filename)
         arrived == [NoRequest EXCEPT !.endpoint = "upload"]
         failed(status, detail) ==
           /\ requests' = [requests EXCEPT ![c] =
                             [arrived EXCEPT !.pc = "done",
                                             !.response = HTTPException(status, detail)]]
           /\ UNCHANGED doc_store
     IN  IF file.size > MaxFileSize
         THEN failed(413, <<"F","i","l","e"," ","t","o","o"," ","l","a","r","g","e","."," ","M","a","x","i","m","u","m"," ","s","i","z","e"," ","i","s"," ","5","0","M","B",".">>)
         ELSE IF ~(EndsWith(filename, <<".","p","d","f">>) \/ EndsWith(filename, <<".","t","x","t">>))
         THEN failed(400, <<"U","n","s","u","p","p","o","r","t","e","d"," ","f","i","l","e"," ","t","y","p","e","."," ","P","l","e","a","s","e"," ","u","p","l","o","a","d"," ","P","D","F"," ","o","r"," ","T","X","T",".">>)
         ELSE IF file.text = <<>> \/ IsBlank(file.text)
         THEN failed(400, <<"T","h","e"," ","f","i","l","e"," ","a","p","p","e","a","r","s"," ","t","o"," ","b","e"," ","e","m","p","t","y"," ","o","r"," ","u","n","r","e","a","d","a","b","l","e",".">>)
         ELSE /\ doc_store' = [doc_store EXCEPT !.content = file.text]
              /\ requests' = [requests EXCEPT ![c] =
                                [arrived EXCEPT !.pc = "await", !.text = file.text]]
  /\ UNCHANGED <<qaVars, corpus>>

\* POST /upload/ after the await: the summary (or the text that stands for it
\* after 60 s) is stored and returned
upload_file_respond(c) ==
  /\ requests[c].endpoint = "upload" /\ requests[c].pc = "await"
  /\ LET job == requests[c].job
         stored(summary) ==
           /\ doc_store' = [doc_store EXCEPT !.summary = summary]
           /\ Respond(c, Response(200, [summary |-> summary,
                                        preview |-> Preview(requests[c].text)]))
           /\ UNCHANGED nrequests
     IN  \/ /\ job # NoResult
            /\ stored(IF job.tag = "return" THEN job.value ELSE SummaryExcept(job.value))
         \/ /\ job = NoResult
            /\ stored(TimedOutSummary)
  /\ UNCHANGED <<qaVars, corpus>>

\* GET /doc/
get_document(c) ==
  /\ Arrives(c)
  /\ requests' = [requests EXCEPT ![c] =
                    [NoRequest EXCEPT !.endpoint = "doc", !.pc = "done",
                       !.response = Response(200, [document |-> Preview(doc_store.content),
                                                   summary |-> doc_store.summary])]]
  /\ UNCHANGED <<doc_store, qaVars, corpus>>

\* /ask/, /challenge/ and /evaluate/ up to their await: without a document the
\* HTTPException raised in the try block is caught by `except Exception`;
\* with one, the qa_logic function is handed to the executor with
\* doc_store["content"] as its argument
Submit(c, endpoint, question, pairs) ==
  LET arrived == [NoRequest EXCEPT !.endpoint = endpoint, !.question = question,
                                   !.pairs = pairs]
  IN  /\ IF doc_store.content = <<>>
         THEN \E error_msg \in StrHTTPException(400, NoDocumentDetail) :
                requests' = [requests EXCEPT ![c] =
                               [arrived EXCEPT !.pc = "done",
                                  !.response = ExceptException(error_msg, ErrorDetail(endpoint))]]
         ELSE requests' = [requests EXCEPT ![c] =
                             [arrived EXCEPT !.pc = "await", !.text = doc_store.content]]
      /\ UNCHANGED <<doc_store, qaVars, corpus>>

\* the handler after its await: the value of the qa_logic function is the
\* body of the response; after the timeout of asyncio.wait_for, status 408
Await(c, endpoint, store) ==
  /\ requests[c].endpoint = endpoint /\ requests[c].pc = "await"
  /\ LET job == requests[c].job
     IN  \/ /\ job # NoResult
            /\ job.tag = "return"
            /\ Respond(c, Response(200, job.value))
            /\ doc_store' = store
         \/ /\ job # NoResult
            /\ job.tag = "raise"
            /\ Respond(c, ExceptException(job.value, ErrorDetail(endpoint)))
            /\ UNCHANGED doc_store
         \/ /\ job = NoResult
            /\ Respond(c, HTTPException(408, TimeoutDetail(endpoint)))
            /\ UNCHANGED doc_store
  /\ UNCHANGED <<nrequests, qaVars, corpus>>

\* POST /ask/
ask_question(c, question) ==
  /\ Arrives(c)
  /\ Submit(c, "ask", question, <<>>)

ask_question_respond(c) ==
  /\ requests[c].endpoint = "ask"
  /\ Await(c, "ask", doc_store)

\* GET /challenge/
challenge_questions(c) ==
  /\ Arrives(c)
  /\ Submit(c, "challenge", <<>>, <<>>)

challenge_questions_respond(c) ==
  /\ requests[c].endpoint = "challenge"
  /\ Await(c, "challenge", StoreQuestions(doc_store, requests[c].job.value))

\* POST /evaluate/
evaluate_answers_handler(c, responses) ==
  /\ Arrives(c)
  /\ Submit(c, "evaluate", <<>>, responses)

evaluate_answers_respond(c) ==
  /\ requests[c].endpoint = "evaluate"
  /\ Await(c, "evaluate", doc_store)

\* the executor thread of request c runs the qa_logic function: the prompt is
\* built from its document_text argument and given to the wrapper.  (A job
\* whose handler timed out goes on in its thread; it touches nothing of the
\* API.)
run_in_executor(c) ==
  /\ requests[c].pc = "await" /\ requests[c].job = NoResult
  /\ LET req == requests[c]
         document_text_ == JobDocument(req, doc_store)
         sent == <<Prompt(Truncate(document_text_, ContextLimit), req.question, <<>>)>>
         ran(job, prompts) ==
           requests' = [requests EXCEPT ![c].job = job, ![c].prompts = prompts]
     IN  CASE req.endpoint = "upload" ->
                \E w \in WrapperResults["generate_summary"] :
                  ran(SummaryResult(document_text_, w), sent)
           [] req.endpoint = "ask" ->
                \E w \in WrapperResults["answer_question"] :
                  ran(AnswerResult(req.question, w), sent)
           [] req.endpoint = "challenge" ->
                \E w \in WrapperResults["generate_challenge_questions"] :
                  ran(ChallengeResult(w), sent)
           [] req.endpoint = "evaluate" ->
                ran(Return(EvaluateJob(req.pairs)), <<>>)
  /\ UNCHANGED <<doc_store, nrequests, qaVars, corpus>>

NextApi ==
  \/ \E c \in Clients, file \in Files : upload_file(c, file)
  \/ \E c \in Clients : upload_file_respond(c)
  \/ \E c \in Clients : get_document(c)
  \/ \E c \in Clients, question \in ApiQuestions : ask_question(c, question)
  \/ \E c \in Clients : ask_question_respond(c)
  \/ \E c \in Clients : challenge_questions(c)
  \/ \E c \in Clients : challenge_questions_respond(c)
  \/ \E c \in Clients, responses \in Responses : evaluate_answers_handler(c, responses)
  \/ \E c \in Clients : evaluate_answers_respond(c)
  \/ \E c \in Clients : run_in_executor(c)

SpecApi == Init /\ [][NextApi]_vars

-----------------------------------------------------------------------------
(* Vocabulary of the properties                                            *)

\* the transport calls of the current wrapper call, in order
Calls(ev) == SelectSeq(ev, LAMBDA e : e.type = "call")

\* the sleeps of the current wrapper call, in order
Sleeps(ev) == SelectSeq(ev, LAMBDA e : e.type = "sleep")

\* a message containing "quota exceeded"
SaysQuotaExceeded(m) == Contains(m, <<"q","u","o","t","a"," ","e","x","c","e","e","d","e","d">>)

\* a quota error of the completion service, in any letter case
QuotaMessage(m) ==
  \/ Contains(Lower(m), <<"i","n","s","u","f","f","i","c","i","e","n","t","_","q","u","o","t","a">>)
  \/ Contains(Lower(m), <<"e","x","c","e","e","d","e","d"," ","y","o","u","r"," ","c","u","r","r","e","n","t"," ","q","u","o","t","a">>)

\* a rate-limit error, in any letter case, that is not a quota error
RateLimitMessage(m) ==
  /\ ~QuotaMessage(m)
  /\ (Contains(Lower(m), <<"r","a","t","e"," ","l","i","m","i","t">>) \/ Contains(Lower(m), <<"r","a","t","e","_","l","i","m","i","t">>))

\* an invalid-API-key error, as /ask/, /challenge/ and /evaluate/ recognise it
InvalidCredentialMessage(m) ==
  Contains(Lower(m), <<"i","n","v","a","l","i","d">>) /\ Contains(Lower(m), <<"k","e","y">>)

MessageIs(kind, m) ==
  CASE kind = "quota exceeded text" -> SaysQuotaExceeded(m)
    [] kind = "quota" -> QuotaMessage(m)
    [] kind = "rate limit" -> RateLimitMessage(m)

\* every transport call so far of the current wrapper call raised, with a
\* message of the kind; there was at least one
EveryCallRaised(kind) ==
  /\ Calls(events) # <<>>
  /\ \A k \in 1..Len(Calls(events)) :
       ~Calls(events)[k].ok /\ MessageIs(kind, Calls(events)[k].text)

\* the wrapper call has ended (returned or raised)
WrapperEnded == wres.tag # "none"

\* an empty or whitespace-only answer
BlankAnswer(a) == \A k \in 1..Len(a) : a[k] \in {" ", "\t", "\n"}

-----------------------------------------------------------------------------
\* C1 (as stated): when every transport call raises a message containing
\* "quota exceeded", the wrapper ends after exactly 1 call, without a sleep,
\* by raising.
C1_QuotaExceededText_OneAttempt ==
  (WrapperEnded /\ EveryCallRaised("quota exceeded text"))
    => /\ Len(Calls(events)) = 1
       /\ Sleeps(events) = <<>>
       /\ wres.tag = "raise"

\* C1 (amended): when every transport call raises a message that contains
\* "insufficient_quota" or "exceeded your current quota" in any letter case,
\* the wrapper makes exactly 1 transport call, never sleeps, schedules no
\* further attempt, and raises its quota-exceeded exception.
C1_QuotaError_OneAttempt ==
  EveryCallRaised("quota")
    => /\ events = <<CallEvent([ok |-> FALSE, text |-> events[1].text])>>
       /\ pc # "call"
       /\ wres = Raise(QuotaExceededMsg)

C1_Witness ==
  /\ pc = "handle"
  /\ events = <<CallEvent([ok |-> FALSE, text |-> MsgExceededQuota])>>
  /\ wres = Raise(QuotaExceededMsg)

\* C2: when the first 2 transport calls raise a rate-limit error and the 3rd
\* succeeds, the wrapper sleeps 1 second after the first failure and 2 seconds
\* after the second, each time going on to the next call, and returns the 3rd
\* call's response: 3 calls, 2 sleeps, in the order call, sleep 1, call,
\* sleep 2, call.
C2_RateLimitTwiceThenSuccess ==
  LET c == Calls(events)
      rl(k) == ~c[k].ok /\ RateLimitMessage(c[k].text)
  IN  /\ (Len(c) = 1 /\ rl(1))
           => events = <<CallEvent(c[1]), SleepEvent(1)>> /\ pc = "call"
      /\ (Len(c) = 2 /\ rl(1) /\ rl(2))
           => /\ events = <<CallEvent(c[1]), SleepEvent(1), CallEvent(c[2]), SleepEvent(2)>>
              /\ pc = "call"
      /\ (Len(c) = 3 /\ rl(1) /\ rl(2) /\ c[3].ok)
           => /\ events = <<CallEvent(c[1]), SleepEvent(1), CallEvent(c[2]), SleepEvent(2),
                            CallEvent(c[3])>>
              /\ pc # "call"
              /\ wres = Return(c[3].text)

C2_Witness ==
  /\ pc = "handle"
  /\ Len(Calls(events)) = 3
  /\ RateLimitMessage(Calls(events)[1].text) /\ ~Calls(events)[1].ok
  /\ RateLimitMessage(Calls(events)[2].text) /\ ~Calls(events)[2].ok
  /\ Calls(events)[3].ok
  /\ Len(Sleeps(events)) = 2
  /\ wres.tag = "return"

\* C3: when every transport call raises a rate-limit error, the wrapper ends
\* after exactly 3 calls by raising a failure that names the rate limit.
C3_RateLimitExhausted_NamesRateLimit ==
  (WrapperEnded /\ EveryCallRaised("rate limit"))
    => /\ Len(Calls(events)) = 3
       /\ wres.tag = "raise"
       /\ RateLimitMessage(wres.value)

\* C4: a transport call that raises an invalid-API-key error is the last thing
\* the wrapper does: no sleep and no call follows it, and the wrapper raises.
C4_InvalidCredential_NotRetried ==
  \A k \in 1..Len(events) :
    (events[k].type = "call" /\ ~events[k].ok /\ InvalidCredentialMessage(events[k].text))
      => /\ k = Len(events)
         /\ pc # "call"
         /\ wres.tag = "raise"


\* C5: generate_challenge_questions always returns exactly 3 questions, none
\* of them empty: whatever the response parses to, and on a quota failure and
\* on any other failure of the wrapper.
C5_AlwaysThreeQuestions ==
  (op = "generate_challenge_questions" /\ pc = "done")
    => /\ result.tag = "return"
       /\ Len(result.value) = 3
       /\ \A k \in 1..Len(result.value) : result.value[k] # <<>>

C5_Witness ==
  /\ op = "generate_challenge_questions"
  /\ pc = "done"
  /\ Len(parsed) = 5
  /\ Len(result.value) = 3

C7_BlankAnswer_NoTransportCall ==
  op = "evaluate_user_answers"
    => /\ pc = "call" => ~BlankAnswer(qa_pairs[idx].answer)
       /\ \A k \in 1..Len(feedback) :
            BlankAnswer(qa_pairs[k].answer)
              => /\ feedback[k].question = qa_pairs[k].question
                 /\ feedback[k].evaluation = <<"P","l","e","a","s","e"," ","p","r","o","v","i","d","e"," ","a","n"," ","a","n","s","w","e","r"," ","t","o"," ","r","e","c","e","i","v","e"," ","f","e","e","d","b","a","c","k",".">>
       /\ (pc = "done" /\ feedback # <<>>) => result = Return(feedback)
       /\ ncalls <= 3 * Cardinality({k \in 1..Len(qa_pairs) : ~BlankAnswer(qa_pairs[k].answer)})

C7_Witness ==
  /\ op = "evaluate_user_answers"
  /\ pc = "done"
  /\ Len(qa_pairs) = 2
  /\ qa_pairs[1].answer = <<" ","\t">>
  /\ ~BlankAnswer(qa_pairs[2].answer)
  /\ result = Return(feedback)
  /\ Len(feedback) = 2
  /\ ncalls = 3

\* C8: when every transport call fails with a quota error, each operation
\* returns (never raises), and returns its quota fallback, not its generic
\* error value: the fallback summary, the fallback answer, the 3 fallback
\* questions, and for evaluate_user_answers the fallback evaluation in the
\* record of the pair the calls were made for.
C8_QuotaExhaustion_Fallback ==
  /\ pc = "done" => result.tag = "return"
  /\ (pc = "done" /\ EveryCallRaised("quota"))
       => /\ op = "generate_summary"
               => /\ result.value = SummaryFallback(document_text)
                  /\ result.value # SummaryError(wres.value)
          /\ op = "answer_question"
               => /\ result.value = AnswerFallback(user_question)
                  /\ result.value # AnswerError(wres.value)
          /\ op = "generate_challenge_questions"
               => /\ result.value = ChallengeQuotaFallback
                  /\ result.value # ChallengeErrorFallback
          /\ op = "evaluate_user_answers"
               => result.value = feedback
  /\ (op = "evaluate_user_answers" /\ pc \in {"loop", "done"} /\ EveryCallRaised("quota"))
       => /\ Len(feedback) = idx - 1
          /\ feedback[idx - 1] =
               FeedbackRecord(qa_pairs[idx - 1].question, qa_pairs[idx - 1].answer,
                              EvaluationFallback(qa_pairs[idx - 1].answer))
          /\ feedback[idx - 1].evaluation # EvaluationError(wres.value)

C8_Witness ==
  /\ op = "evaluate_user_answers"
  /\ pc = "done"
  /\ EveryCallRaised("quota")
  /\ ncalls = 2
  /\ Len(result.value) = 2
  /\ \A k \in 1..2 : result.value[k].evaluation = EvaluationFallback(qa_pairs[k].answer)

\* C9: when the wrapper call ended by raising a failure that is not a quota
\* failure, the operation raises that failure to its caller.
C9_OtherFailures_Propagate ==
  (pc = "done" /\ wres.tag = "raise"
     /\ ~SaysQuotaExceeded(wres.value) /\ ~QuotaMessage(wres.value))
    => result = Raise(wres.value)

\* C10: evaluate_user_answers returns one record per input pair, in input
\* order, the k-th record carrying the k-th pair's question.
C10_OneRecordPerPair ==
  (op = "evaluate_user_answers" /\ pc = "done")
    => /\ result.tag = "return"
       /\ Len(result.value) = Len(qa_pairs)
       /\ \A k \in 1..Len(qa_pairs) : result.value[k].question = qa_pairs[k].question

\* C11: in evaluate_user_answers, a quota failure of the wrapper call made for
\* one pair ends neither the loop nor the function: the pair's record, with
\* the quota fallback text, is appended to the records collected so far, which
\* stay as they were; and the next pair with a non-blank answer gets a fresh
\* wrapper call of its own, so that the function returns one record per pair.
C11_QuotaFailure_OnlyThatPair ==
  /\ [][(op = "evaluate_user_answers" /\ pc = "handle" /\ wres = Raise(QuotaExceededMsg))
          => /\ feedback' = Append(feedback,
                              FeedbackRecord(qa_pairs[idx].question, qa_pairs[idx].answer,
                                             EvaluationFallback(qa_pairs[idx].answer)))
             /\ idx' = idx + 1
             /\ pc' = "loop"
             /\ result' = NoResult]_vars
  /\ [][(op = "evaluate_user_answers" /\ pc = "loop" /\ wres = Raise(QuotaExceededMsg)
           /\ idx <= Len(qa_pairs))
          => IF BlankAnswer(qa_pairs[idx].answer)
             THEN /\ pc' = "loop"
                  /\ SubSeq(feedback', 1, Len(feedback)) = feedback
                  /\ Len(feedback') = Len(feedback) + 1
             ELSE /\ pc' = "call"
                  /\ events' = <<>>
                  /\ attempt' = 0
                  /\ feedback' = feedback]_vars
  /\ []((op = "evaluate_user_answers" /\ pc = "done" /\ wres = Raise(QuotaExceededMsg))
          => /\ result = Return(feedback)
             /\ Len(feedback) = Len(qa_pairs))

C11_Witness ==
  /\ op = "evaluate_user_answers"
  /\ pc = "done"
  /\ Len(qa_pairs) = 2
  /\ Len(result.value) = 2
  /\ result.value[1].evaluation = EvaluationFallback(qa_pairs[1].answer)
  /\ result.value[2].evaluation = <<"G","o","o","d"," ","a","n","s","w","e","r",".">>
  /\ ncalls = 2

\* C15: whatever the transport does, one wrapper call makes at most 3
\* transport calls; it ends (by returning or by raising, nothing else); when
\* it returns, the value is the response of its last transport call, which
\* succeeded, while every earlier one failed; when it raises, no call
\* succeeded; and a wrapper call that has started does end.
C15_AtMostThreeAttempts_Terminates ==
  /\ [](LET c == Calls(events)
        IN  /\ Len(c) <= 3
            /\ wres.tag \in {"none", "return", "raise"}
            /\ pc = "call" => wres.tag = "none"
            /\ wres.tag = "return"
                 => /\ c # <<>>
                    /\ c[Len(c)].ok
                    /\ wres.value = c[Len(c)].text
                    /\ events[Len(events)] = CallEvent(c[Len(c)])
                    /\ \A k \in 1..(Len(c) - 1) : ~c[k].ok
            /\ wres.tag = "raise" => (c # <<>> /\ \A k \in 1..Len(c) : ~c[k].ok))
  /\ ((pc = "call") ~> WrapperEnded)

C15_Witness ==
  /\ pc = "handle"
  /\ Len(Calls(events)) = 3
  /\ IsRateLimitError(Lower(Calls(events)[1].text)) /\ ~Calls(events)[1].ok
  /\ Calls(events)[2].text = MsgTimeout /\ ~Calls(events)[2].ok
  /\ Calls(events)[3].text = MsgConnection /\ ~Calls(events)[3].ok
  /\ wres = Raise(MsgConnection)

\* the number of transport calls among the first j events
CallsBefore(j) == Len(Calls(SubSeq(events, 1, j)))

\* the sleep at position j is followed by another attempt
RetryFollows(j) == j < Len(events) \/ pc = "call"

\* C16: a sleep that is followed by another attempt lasts 2^attempt seconds,
\* attempt being the number (from 0) of the failed attempt before it,
\* whatever the kind of the failure.
C16_ExponentialBackoff_EveryKind ==
  \A j \in 1..Len(events) :
    (events[j].type = "sleep" /\ RetryFollows(j))
      => events[j].secs = 2 ^ (CallsBefore(j) - 1)

\* C17: a sleep is always followed by another attempt, and one wrapper call
\* sleeps at most 2 times.
C17_NoSleepAfterLastAttempt ==
  /\ Len(Sleeps(events)) <= 2
  /\ \A j \in 1..Len(events) : events[j].type = "sleep" => RetryFollows(j)

\* C19: when the response parses to k questions, generate_challenge_questions
\* returns the first 3 of them, in response order, if k >= 3; and if k < 3 the
\* k parsed questions in order, followed by the first 3-k generic questions
\* ("What are the main points ...", "What conclusions ...", "How would you
\* summarize ...") in that order.
C19_FirstThree_OrPaddedInOrder ==
  (op = "generate_challenge_questions" /\ pc = "done" /\ wres.tag = "return")
    => LET k == Len(parsed)
           generic == << <<"W","h","a","t"," ","a","r","e"," ","t","h","e"," ","m","a","i","n"," ","p","o","i","n","t","s"," ","d","i","s","c","u","s","s","e","d"," ","i","n"," ","t","h","i","s"," ","d","o","c","u","m","e","n","t","?">>,
                         <<"W","h","a","t"," ","c","o","n","c","l","u","s","i","o","n","s"," ","c","a","n"," ","y","o","u"," ","d","r","a","w"," ","f","r","o","m"," ","t","h","e"," ","i","n","f","o","r","m","a","t","i","o","n"," ","p","r","e","s","e","n","t","e","d","?">>,
                         <<"H","o","w"," ","w","o","u","l","d"," ","y","o","u"," ","s","u","m","m","a","r","i","z","e"," ","t","h","e"," ","k","e","y"," ","f","i","n","d","i","n","g","s"," ","o","r"," ","a","r","g","u","m","e","n","t","s","?">> >>
       IN  /\ result.tag = "return"
           /\ k >= 3 => result.value = <<parsed[1], parsed[2], parsed[3]>>
           /\ k < 3 => result.value = parsed \o SubSeq(generic, 1, 3 - k)

C19_Witness ==
  /\ op = "generate_challenge_questions"
  /\ pc = "done"
  /\ parsed = << <<"a","?">>, <<"b","?">> >>
  /\ result = Return(<< <<"a","?">>, <<"b","?">>, <<"W","h","a","t"," ","a","r","e"," ","t","h","e"," ","m","a","i","n"," ","p","o","i","n","t","s"," ","d","i","s","c","u","s","s","e","d"," ","i","n"," ","t","h","i","s"," ","d","o","c","u","m","e","n","t","?">> >>)

\* C14: the document text in the prompt of every operation is at most 4000
\* characters long, is a prefix of the document text, and is the whole
\* document text when that has at most 4000 characters; it is the same for
\* every transport call of the operation.
C14_PromptDocument_Truncated ==
  /\ prompt.built
       => /\ Len(prompt.document) <= 4000
          /\ prompt.document = SubSeq(document_text, 1, Len(prompt.document))
          /\ Len(document_text) <= 4000 => prompt.document = document_text
          /\ Len(document_text) > 4000 => Len(prompt.document) = 4000
  /\ pc = "call" => prompt.built

C14_Witness ==
  /\ op = "evaluate_user_answers"
  /\ pc = "call"
  /\ idx = 2
  /\ ncalls = 4
  /\ Len(document_text) = 4001
  /\ Len(prompt.document) = 4000
  /\ prompt.document[4000] = "b"

-----------------------------------------------------------------------------
(* Vocabulary of the properties of the API                                   *)

\* client c's request is one to /ask/, /challenge/ or /evaluate/
ReadsDocument(c) == requests[c].endpoint \in {"ask", "challenge", "evaluate"}

\* client c's upload is in progress
UploadInProgress(c) == requests[c].endpoint = "upload" /\ requests[c].pc = "await"

\* what /upload/ can store as the summary of a document with this text
SummariesOf(text) ==
  {SummaryResult(text, w).value : w \in WrapperResults["generate_summary"]}
    \cup {TimedOutSummary}

\* C12: a request to /ask/, /challenge/ or /evaluate/ that found no document
\* stored is answered with status 400 and detail "No document uploaded yet.",
\* and no prompt was given to the wrapper for it.
C12_NoDocument_Status400 ==
  \A c \in Clients :
    (ReadsDocument(c) /\ requests[c].pc = "done" /\ requests[c].text = <<>>)
      => /\ requests[c].response = HTTPException(400, <<"N","o"," ","d","o","c","u","m","e","n","t"," ","u","p","l","o","a","d","e","d"," ","y","e","t",".">>)
         /\ requests[c].prompts = <<>>

\* C13: a step that changes doc_store["content"] is the step of an /upload/
\* request that stores its extracted text, and that request is answered with
\* status 200; no step of /ask/, /challenge/, /evaluate/, /doc/ or of a job
\* in the executor changes it.
C13_OnlyUploadChangesContent ==
  /\ [][doc_store'.content # doc_store.content
          => \E c \in Clients :
               /\ ~UploadInProgress(c)
               /\ UploadInProgress(c)'
               /\ requests'[c].text = doc_store'.content]_vars
  /\ [][\A c \in Clients :
          (UploadInProgress(c) /\ ~UploadInProgress(c)')
            => /\ requests'[c].endpoint = "upload"
               /\ requests'[c].pc = "done"
               /\ requests'[c].response.status = 200]_vars

C13_Witness ==
  \E c \in Clients :
    /\ requests[c].endpoint = "challenge"
    /\ requests[c].pc = "done"
    /\ requests[c].response.status = 200
    /\ doc_store.challenge_questions = requests[c].response.body
    /\ Len(doc_store.challenge_questions) = 3
    /\ doc_store.content = <<"C","a","t","s"," ","p","u","r","r",".">>
    /\ requests[c].text = <<"C","a","t","s"," ","p","u","r","r",".">>

\* C18: whenever no upload is in progress, the stored summary is one that
\* /upload/ stores for the stored content (or both are still empty).
C18_SummaryOfStoredContent ==
  (\A c \in Clients : ~UploadInProgress(c))
    => \/ doc_store.content = <<>> /\ doc_store.summary = <<>>
       \/ doc_store.summary \in SummariesOf(doc_store.content)

\* C20: a request to /ask/, /challenge/ or /evaluate/ takes the stored content
\* once, when it arrives; the text it took stays the same while the request
\* is in flight, whatever is uploaded meanwhile; and the document in every
\* prompt given to the wrapper for the request is that text, truncated.
C20_PromptsFromTheTextRead ==
  /\ [][\A c \in Clients :
          (requests[c].pc # "await" /\ ReadsDocument(c)' /\ requests'[c].pc = "await")
            => requests'[c].text = doc_store.content]_vars
  /\ [][\A c \in Clients :
          (ReadsDocument(c) /\ requests[c].pc = "await" /\ ReadsDocument(c)')
            => requests'[c].text = requests[c].text]_vars
  /\ [](\A c \in Clients :
          ReadsDocument(c)
            => \A k \in 1..Len(requests[c].prompts) :
                 requests[c].prompts[k].document = Truncate(requests[c].text, 4000))

C20_Witness ==
  \E c \in Clients :
    /\ requests[c].endpoint = "ask"
    /\ requests[c].pc = "await"
    /\ requests[c].text = <<"C","a","t","s"," ","p","u","r","r",".">>
    /\ doc_store.content = <<"D","o","g","s"," ","b","a","r","k"," ","l","o","u","d","l","y"," ","a","t"," ","n","i","g","h","t",".">>
    /\ Len(requests[c].prompts) = 1
    /\ requests[c].prompts[1].document = <<"C","a","t","s"," ","p","u","r","r",".">>

====
